---- MODULE Spec2Model ----
(***************************************************************************)
(* NetRep: module preservation statistics.                                 *)
(*                                                                         *)
(* Spec / FairSpec : PermutationProcedure and its worker threads           *)
(*                   (calculateNulls), the observed matrix, the null cube, *)
(*                   the cancellation flag and the progress counters.      *)
(* SpecData        : the same procedure started on test datasets that lack *)
(*                   nodes or carry values that overflow.                  *)
(* SpecHistory     : Spec with counters of the work each worker does after *)
(*                   the cancellation flag is set.                         *)
(* SpecPool        : the permutable pool: its construction, the copies the *)
(*                   workers shuffle, the index vectors modules draw and   *)
(*                   the statistics computed on them.                      *)
(* SpecAlign       : SpecPool on a module of three members.                *)
(* SpecProps       : NetworkProperties / NetworkPropertiesNoData, one      *)
(*                   module per step.                                      *)
(*                                                                         *)
(* Numbers a statistic can take are abstracted to the classes              *)
(*   "NA" (R's NA_REAL), "NaN", "Inf", "NegInf", "Fin" (any finite value), *)
(* except the weighted degree, which is computed on integer edge weights.  *)
(***************************************************************************)
EXTENDS Integers, Sequences, FiniteSets, TLC

\* ------------------------------------------------------------------ bounds
MaxPerm    == 2   \* nPermutations ranges over 1..MaxPerm
MaxThreads == 2   \* nCores ranges over 1..MaxThreads
NMods      == 2   \* number of requested modules (length of 'modules')
NNodes     == 4   \* node names of the module assignment: 0..NNodes-1

\* -------------------------------------------------------- program constants
NStats == 7       \* columns of 'obs' and of every slice of 'nulls'

VARIABLES
  \* inputs of PermutationProcedure
  nPerm,          \* nPermutations[0]
  nThreads,       \* nCores[0]
  tPresent,       \* node names that are present in the test dataset
  tKind,          \* class of the test matrices: "regular" or "overflow"
  \* main thread
  pcMain,         \* position of PermutationProcedure
  ii,             \* loop index of the main thread's current loop
  obs,            \* observed matrix: <<row, col>> -> value class
  nulls,          \* null cube: <<row, col, slice>> -> value class
  chunkPerms,     \* permutations per thread
  startIdx,       \* first slice of each thread
  progress,       \* completed permutations per thread
  interrupted,    \* the shared cancellation flag
  userInterrupt,  \* an interrupt of the user is pending in the host (R)
  \* worker threads (calculateNulls)
  wpc,            \* position of each worker
  wpp,            \* pp of each worker
  wmi,            \* index in 'mods' of each worker's iterator mi
  \* history, read by the properties only
  writers,        \* <<row, col, slice>> -> the workers that wrote it, in order
  startFlag,      \* value of 'interrupted' when the worker began to run
  wcut,           \* the check at which a worker returned ("" if none)
  disc,           \* discovery cache discWD/discNC/discCV: <<label, content>>
  pairsAfter,     \* pairs (module, slice) a worker stored with the flag set
  incsAfter,      \* increments of its counter a worker made with the flag set
  \* NetworkProperties / NetworkPropertiesNoData
  np,             \* record of that procedure's state (see InitProps)
  \* the permutable pool (see SpecPool)
  pin,            \* inputs: nullHypothesis, names(moduleAssignments), tNames,
                  \* dNames, and modNodeMap as built at line 185
  pcPool,         \* position of PermutationProcedure
  nullIdx,        \* the pool of PermutationProcedure
  nullMap,        \* its name -> position table
  wNullIdx,       \* the pool each worker was handed (parameter nullIdx)
  wNullMap,       \* the table each worker was handed (parameter nullMap)
  poolPc,         \* position of each worker
  poolPp,         \* permutations each worker has begun
  poolMi,         \* index in 'mods' of each worker's iterator mi
  tIdx,           \* the last index vector each worker drew and the row of
                  \* statistics it stored for it
  shuffled,       \* history: each worker's pool right after its last shuffle
  discVec,        \* discCV / discWD / discNC with their vectors, by label
  obsStat,        \* the observed matrix with its statistics: row -> columns
  permIdx         \* history: the index vectors each worker has drawn in the
                  \* permutation it is at, by position in 'mods'

permVars == <<nPerm, nThreads, tPresent, tKind, pcMain, ii, obs, nulls,
              chunkPerms, startIdx, progress, interrupted, userInterrupt,
              wpc, wpp, wmi, writers, startFlag, wcut, disc, pairsAfter,
              incsAfter>>
poolVars == <<pin, pcPool, nullIdx, nullMap, wNullIdx, wNullMap, poolPc,
              poolPp, poolMi, tIdx, shuffled, discVec, obsStat, permIdx>>
vars == <<nPerm, nThreads, tPresent, tKind, pcMain, ii, obs, nulls,
          chunkPerms, startIdx, progress, interrupted, userInterrupt,
          wpc, wpp, wmi, writers, startFlag, wcut, disc, pairsAfter,
          incsAfter, np, pin, pcPool, nullIdx, nullMap, wNullIdx, wNullMap,
          poolPc, poolPp, poolMi, tIdx, shuffled, discVec, obsStat, permIdx>>

\* ------------------------------------------------------------ index sets
Nodes   == 0 .. NNodes - 1
ModRows == 0 .. NMods - 1
Cols    == 0 .. NStats - 1
Workers == 0 .. MaxThreads - 1
Threads == 0 .. nThreads - 1
Slices  == 0 .. nPerm - 1

ObsCells  == ModRows \X Cols
NullCells == ModRows \X Cols \X Slices

\* moduleAssignments: node name -> module label (row of the label in 'mods');
\* every requested module has a member, the first module has the most
ModuleOf(n) == IF n < NMods THEN n ELSE 0

\* modNodeMap: the member node names of a module
Members(m) == {n \in Nodes : ModuleOf(n) = m}

\* the test datasets tried: <<names present, class of the matrices>>. In an
\* "overflow" dataset the edge weights are finite and their sums are not. The
\* second module has the single member 1.
CompleteDataset == <<Nodes, "regular">>

TestDatasets ==
  {CompleteDataset, <<Nodes, "overflow">>, <<Nodes \ {1}, "regular">>,
   <<{}, "regular">>}

\* ---------------------------------------------------------------- indices
\* GetNodeIdx(mod, modNodeMap, tIdxMap) / GetRandomIdx(mod, modNodeMap, nullIdx,
\* nullMap): one index per member name that the lookup table holds, so the
\* index vector of a module has as many entries as it has members present in
\* the test dataset.
IdxSize(m, present) == Cardinality(Members(m) \cap present)

\* length of CorrVector(corr, idx): the unordered pairs of idx
CorrVectorLen(n) == (n * (n - 1)) \div 2

\* ------------------------------------------------------------- statistics
\* mean of a vector of len elements (AverageEdgeWeight, ModuleCoherence,
\* SignAwareMean): the empty reduction 0/0 is not guarded
MeanClass(len) == IF len = 0 THEN "NaN" ELSE "Fin"

\* Pearson correlation of two vectors of len elements: NaN when a vector has
\* zero variance, which every vector of fewer than two elements has
CorrelationClass(len) == IF len < 2 THEN "NaN" ELSE "Fin"

\* AverageEdgeWeight(tWD): the weighted degrees of an "overflow" dataset are
\* +Inf as soon as a node has a neighbour in the module
AverageEdgeWeightClass(n, kind) ==
  IF n >= 2 /\ kind = "overflow" THEN "Inf" ELSE MeanClass(n)

\* Correlation(discWD[mod], tWD): Inf - Inf is NaN
CorrelationDegreeClass(n, kind) ==
  IF n >= 2 /\ kind = "overflow" THEN "NaN" ELSE CorrelationClass(n)

\* the seven statistics of a module whose index vector has n entries, in the
\* column order of lines 81-87 / 281-287
StatClass(n, kind, col) ==
  CASE col = 0 -> AverageEdgeWeightClass(n, kind)
    [] col = 1 -> MeanClass(n)
    [] col = 2 -> CorrelationClass(CorrVectorLen(n))
    [] col = 3 -> CorrelationDegreeClass(n, kind)
    [] col = 4 -> CorrelationClass(n)
    [] col = 5 -> MeanClass(CorrVectorLen(n))
    [] col = 6 -> MeanClass(n)

\* isnan(x): true of every NaN, R's NA_REAL included
IsNaNMutant(v) == v = "NA"
IsNaN(v) == v \in {"NaN", "NA"}

\* lines 346-357: if (isnan(*it)) *it = NA_REAL  (mutant: if (!isfinite(*it)))
ConvertNaNMutant(v) == IF v # "Fin" THEN "NA" ELSE v
ConvertNaN(v) == IF IsNaN(v) THEN "NA" ELSE v

\* ------------------------------------------------------------ partitioning
\* lines 302-305: every thread gets nPerm / nThreads
BaseChunksMutant(nP, nT) == [t \in 0 .. nT - 1 |-> (nP + nT - 1) \div nT]
BaseChunks(nP, nT) == [t \in 0 .. nT - 1 |-> nP \div nT]

\* lines 308-310: for (ii = 0; ii < nPerm % nThreads; ++ii) chunkPerms.at(ii)++
RemainderThreadsMutant(nP, nT) == 0 .. (nP % nT)
RemainderThreads(nP, nT) == 0 .. (nP % nT) - 1

ChunkPerms(nP, nT) ==
  [t \in 0 .. nT - 1 |->
     IF t \in RemainderThreads(nP, nT) THEN BaseChunks(nP, nT)[t] + 1
     ELSE BaseChunks(nP, nT)[t]]

RECURSIVE SumChunks(_, _)
SumChunks(chunks, S) ==
  IF S = {} THEN 0
  ELSE LET j == CHOOSE x \in S : TRUE
       IN chunks[j] + SumChunks(chunks, S \ {j})

\* lines 314-318: for (jj = 0; jj < ii; ++jj) startIdx.at(ii) += chunkPerms.at(jj)
EarlierThreadsMutant(t) == 0 .. t - 2
EarlierThreads(t) == 0 .. t - 1

StartIdx(chunks, nT) ==
  [t \in 0 .. nT - 1 |-> SumChunks(chunks, EarlierThreads(t))]

\* ------------------------------------------------------------------- Init
\* The state on entry to the discovery loop (line 238): 'nulls' is allocated
\* and filled with NA_REAL (lines 202-203), 'obs' is allocated (line 201),
\* the cache discWD/discNC/discCV is empty (line 208).
PropsIdle == [pc |-> "off"]

\* the pool procedure of SpecPool is not running
PoolIdle ==
  /\ pin = [nullType |-> "off"]
  /\ pcPool = "off"
  /\ nullIdx = <<>>
  /\ nullMap = <<>>
  /\ wNullIdx = <<>>
  /\ wNullMap = <<>>
  /\ poolPc = <<>>
  /\ poolPp = <<>>
  /\ poolMi = <<>>
  /\ tIdx = <<>>
  /\ shuffled = <<>>
  /\ discVec = <<>>
  /\ obsStat = <<>>
  /\ permIdx = <<>>

InitPerm(datasets) ==
  /\ nPerm \in 1 .. MaxPerm
  /\ nThreads \in 1 .. MaxThreads
  /\ \E d \in datasets : tPresent = d[1] /\ tKind = d[2]
  /\ pcMain = "discovery"
  /\ ii = 0
  /\ obs = [c \in ObsCells |-> "Uninit"]
  /\ nulls = [c \in NullCells |-> "NA"]
  /\ chunkPerms = [t \in Threads |-> 0]
  /\ startIdx = [t \in Threads |-> 0]
  /\ progress = [t \in Threads |-> 0]
  /\ interrupted = FALSE
  /\ userInterrupt = FALSE
  /\ wpc = [w \in Workers |-> "none"]
  /\ wpp = [w \in Workers |-> 0]
  /\ wmi = [w \in Workers |-> 0]
  /\ writers = [c \in NullCells |-> <<>>]
  /\ startFlag = [w \in Workers |-> FALSE]
  /\ wcut = [w \in Workers |-> ""]
  /\ disc = {}
  /\ np = PropsIdle
  /\ PoolIdle

\* the history counters pairsAfter and incsAfter are kept (one per thread)
\* or not kept (no entry)
NoHistory == pairsAfter = <<>> /\ incsAfter = <<>>
History ==
  /\ pairsAfter = [w \in Workers |-> 0]
  /\ incsAfter = [w \in Workers |-> 0]

\* count one more for worker w if the flag is set and the history is kept
CountAfter(counter, w, flag) ==
  IF flag /\ w \in DOMAIN counter
  THEN [counter EXCEPT ![w] = @ + 1]
  ELSE counter

\* every node of the assignment is in the test dataset (the documented input)
Init == InitPerm({CompleteDataset}) /\ NoHistory

\* the same, with the history counters
InitHistory == InitPerm({CompleteDataset}) /\ History

\* test datasets that lack nodes, or whose sums overflow
InitData == InitPerm(TestDatasets) /\ NoHistory

\* ------------------------------------------------- PermutationProcedure
\* modIdxMap = MakeIdxMap(mods): the row of the mi-th requested module
ModIdx(mi) == mi

\* mod = *mi: the label of the mi-th requested module (lines 240, 264, 60)
ModAtMutant(mi) == 0
ModAt(mi) == mi

\* discWD[mod] = ..., discNC[mod] = ..., discCV[mod] = ... (lines 245-253): the
\* cache holds the vectors computed for the label
CacheInsertMutant(cache, mod) == cache
CacheInsert(cache, mod) ==
  {e \in cache : e[1] # mod} \cup {<<mod, "computed">>}

\* discWD[mod] read with operator[] (lines 83-87, 283-287): a label that is
\* not a key yet is inserted with an empty vector
CacheLookup(cache, mod) ==
  IF \E e \in cache : e[1] = mod THEN cache
  ELSE cache \cup {<<mod, "empty">>}

\* lines 238-255: one iteration of the discovery loop
DiscoveryRow ==
  /\ pcMain = "discovery"
  /\ disc' = CacheInsert(disc, ModAt(ii))
  /\ IF ii + 1 < NMods
     THEN /\ ii' = ii + 1
          /\ pcMain' = pcMain
     ELSE /\ ii' = 0
          /\ pcMain' = "observed"
  /\ UNCHANGED <<nPerm, nThreads, tPresent, tKind, obs, nulls, chunkPerms,
                 startIdx, progress, interrupted, userInterrupt, wpc, wpp,
                 wmi, writers, startFlag, wcut, np, pairsAfter, incsAfter,
                 poolVars>>

\* lines 262-288: one iteration of the observed-statistics loop; the module's
\* index vector is used whatever its size (there is no test of tIdx.size())
ObservedRow ==
  /\ pcMain = "observed"
  /\ obs' = [c \in ObsCells |->
               IF c[1] = ModIdx(ii)
               THEN StatClass(IdxSize(ii, tPresent), tKind, c[2])
               ELSE obs[c]]
  /\ IF ii + 1 < NMods
     THEN /\ ii' = ii + 1
          /\ pcMain' = pcMain
     ELSE /\ ii' = 0
          /\ pcMain' = "partition"
  /\ disc' = CacheLookup(disc, ModAt(ii))
  /\ UNCHANGED <<nPerm, nThreads, tPresent, tKind, nulls, chunkPerms,
                 startIdx, progress, interrupted, userInterrupt, wpc, wpp,
                 wmi, writers, startFlag, wcut, np,
                 pairsAfter, incsAfter, poolVars>>

\* lines 299-326: chunk sizes, start slices, progress counters, the flag
Partition ==
  /\ pcMain = "partition"
  /\ chunkPerms' = ChunkPerms(nPerm, nThreads)
  /\ startIdx' = StartIdx(ChunkPerms(nPerm, nThreads), nThreads)
  /\ progress' = [t \in Threads |-> 0]
  /\ interrupted' = FALSE
  /\ ii' = 0
  /\ pcMain' = "spawn"
  /\ UNCHANGED <<nPerm, nThreads, tPresent, tKind, obs, nulls, userInterrupt,
                 wpc, wpp, wmi, writers, startFlag, wcut, np,
                 disc, pairsAfter, incsAfter, poolVars>>

\* lines 329-337: tt[ii] = std::thread(calculateNulls, ..., chunkPerms.at(ii),
\* startIdx.at(ii), ...); the thread exists but has not run yet
Spawn ==
  /\ pcMain = "spawn"
  /\ wpc' = [wpc EXCEPT ![ii] = "spawned"]
  /\ wpp' = [wpp EXCEPT ![ii] = startIdx[ii]]
  /\ IF ii + 1 < nThreads
     THEN /\ ii' = ii + 1
          /\ pcMain' = pcMain
     ELSE /\ ii' = 0
          /\ pcMain' = "monitor"
  /\ UNCHANGED <<nPerm, nThreads, tPresent, tKind, obs, nulls, chunkPerms,
                 startIdx, progress, interrupted, userInterrupt, wmi, writers,
                 startFlag, wcut, np,
                 disc, pairsAfter, incsAfter, poolVars>>

\* the user asks the host to cancel (^C) while MonitorProgress runs
UserInterrupt ==
  /\ pcMain = "monitor"
  /\ ~userInterrupt
  /\ userInterrupt' = TRUE
  /\ UNCHANGED <<nPerm, nThreads, tPresent, tKind, pcMain, ii, obs, nulls,
                 chunkPerms, startIdx, progress, interrupted, wpc, wpp, wmi,
                 writers, startFlag, wcut, np,
                 disc, pairsAfter, incsAfter, poolVars>>

\* line 339, MonitorProgress: a pending interrupt is written into the shared
\* flag and the monitor returns
MonitorInterrupt ==
  /\ pcMain = "monitor"
  /\ userInterrupt
  /\ interrupted' = TRUE
  /\ ii' = 0
  /\ pcMain' = "join"
  /\ UNCHANGED <<nPerm, nThreads, tPresent, tKind, obs, nulls, chunkPerms,
                 startIdx, progress, userInterrupt, wpc, wpp, wmi, writers,
                 startFlag, wcut, np,
                 disc, pairsAfter, incsAfter, poolVars>>

\* line 339, MonitorProgress: the counters add up to nPerm, the monitor returns
MonitorDone ==
  /\ pcMain = "monitor"
  /\ SumChunks(progress, Threads) = nPerm
  /\ ii' = 0
  /\ pcMain' = "join"
  /\ UNCHANGED <<nPerm, nThreads, tPresent, tKind, obs, nulls, chunkPerms,
                 startIdx, progress, interrupted, userInterrupt, wpc, wpp,
                 wmi, writers, startFlag, wcut, np,
                 disc, pairsAfter, incsAfter, poolVars>>

\* a thread is joinable once calculateNulls has returned
Returned(pc) == pc \in {"completed", "cancelled"}

\* lines 342-344: tt[ii].join()
Join ==
  /\ pcMain = "join"
  /\ Returned(wpc[ii])
  /\ IF ii + 1 < nThreads
     THEN /\ ii' = ii + 1
          /\ pcMain' = pcMain
     ELSE /\ ii' = 0
          /\ pcMain' = "convert"
  /\ UNCHANGED <<nPerm, nThreads, tPresent, tKind, obs, nulls, chunkPerms,
                 startIdx, progress, interrupted, userInterrupt, wpc, wpp,
                 wmi, writers, startFlag, wcut, np,
                 disc, pairsAfter, incsAfter, poolVars>>

\* lines 346-387: NaN -> NA_REAL in 'obs' and in 'nulls', then return
Convert ==
  /\ pcMain = "convert"
  /\ obs' = [c \in ObsCells |-> ConvertNaN(obs[c])]
  /\ nulls' = [c \in NullCells |-> ConvertNaN(nulls[c])]
  /\ pcMain' = "returned"
  /\ UNCHANGED <<nPerm, nThreads, tPresent, tKind, ii, chunkPerms, startIdx,
                 progress, interrupted, userInterrupt, wpc, wpp, wmi, writers,
                 startFlag, wcut, np,
                 disc, pairsAfter, incsAfter, poolVars>>

\* --------------------------------------------------------- calculateNulls
\* the checks 'if (interrupted) return;' and the statement that follows each
CheckLines == {"l58", "l68", "l72", "l74", "l76"}

AfterCheck(line) ==
  CASE line = "l58" -> "l68"
    [] line = "l68" -> "l72"
    [] line = "l72" -> "l74"
    [] line = "l74" -> "l76"
    [] line = "l76" -> "l81"

\* if (interrupted) return;  (mutants: the flag handed to the thread by value,
\* so that it stays false; a check that waits instead of returning)
OnCheckByValue(flag, line) == AfterCheck(line)
OnCheckMutant(flag, line) == IF flag THEN line ELSE AfterCheck(line)
OnCheck(flag, line) == IF flag THEN "cancelled" ELSE AfterCheck(line)

\* line 55: pp < start + nPerm
InChunkMutant(w, pp) == pp <= startIdx[w] + chunkPerms[w]
InChunk(w, pp) == pp < startIdx[w] + chunkPerms[w]

\* the thread begins to run: line 55 with pp = start, line 56 (shuffle of the
\* thread's own copy of nullIdx), line 57 with mi = mods.begin()
Start(w) ==
  /\ wpc[w] = "spawned"
  /\ startFlag' = [startFlag EXCEPT ![w] = interrupted]
  /\ wmi' = [wmi EXCEPT ![w] = 0]
  /\ wpc' = [wpc EXCEPT ![w] = IF InChunk(w, wpp[w]) THEN "l58"
                                ELSE "completed"]
  /\ UNCHANGED <<nPerm, nThreads, tPresent, tKind, pcMain, ii, obs, nulls,
                 chunkPerms, startIdx, progress, interrupted, userInterrupt,
                 wpp, writers, wcut, np,
                 disc, pairsAfter, incsAfter, poolVars>>

\* lines 58, 68, 72, 74, 76: read the flag; return, or compute the next of
\* GetRandomIdx + CorrVector, WeightedDegree, SummaryProfile, NodeContribution
Check(w) ==
  /\ wpc[w] \in CheckLines
  /\ wpc' = [wpc EXCEPT ![w] = OnCheck(interrupted, wpc[w])]
  /\ wcut' = [wcut EXCEPT ![w] = IF interrupted THEN wpc[w] ELSE wcut[w]]
  /\ UNCHANGED <<nPerm, nThreads, tPresent, tKind, pcMain, ii, obs, nulls,
                 chunkPerms, startIdx, progress, interrupted, userInterrupt,
                 wpp, wmi, writers, startFlag, np,
                 disc, pairsAfter, incsAfter, poolVars>>

\* lines 81-87: the columns of nulls.at(modIdx, col, pp) that are assigned
WrittenColsMutant == 0 .. 5
WrittenCols == 0 .. 6

\* lines 81-88: store the seven statistics, ++mi, test mi != mods.end()
WriteStats(w) ==
  /\ wpc[w] = "l81"
  /\ nulls' = [c \in NullCells |->
                 IF c[1] = ModIdx(wmi[w]) /\ c[2] \in WrittenCols
                    /\ c[3] = wpp[w]
                 THEN StatClass(IdxSize(wmi[w], tPresent), tKind, c[2])
                 ELSE nulls[c]]
  /\ writers' = [c \in NullCells |->
                   IF c[1] = ModIdx(wmi[w]) /\ c[2] \in WrittenCols
                      /\ c[3] = wpp[w]
                   THEN Append(writers[c], w)
                   ELSE writers[c]]
  /\ disc' = CacheLookup(disc, ModAt(wmi[w]))
  /\ pairsAfter' = CountAfter(pairsAfter, w, interrupted)
  /\ wmi' = [wmi EXCEPT ![w] = wmi[w] + 1]
  /\ wpc' = [wpc EXCEPT ![w] = IF wmi[w] + 1 < NMods THEN "l58" ELSE "l89"]
  /\ UNCHANGED <<nPerm, nThreads, tPresent, tKind, pcMain, ii, obs,
                 chunkPerms, startIdx, progress, interrupted, userInterrupt,
                 wpp, startFlag, wcut, np, incsAfter, poolVars>>

\* line 89: progress[thread]++; then ++pp, line 55, and for another
\* permutation lines 56-57. 'thread' is the ii of line 334: the slot of the
\* worker itself.
ProgressSlotMutant(w) == 0
ProgressSlot(w) == w

Progress(w) ==
  /\ wpc[w] = "l89"
  /\ progress' = [progress EXCEPT ![ProgressSlot(w)] = @ + 1]
  /\ wpp' = [wpp EXCEPT ![w] = wpp[w] + 1]
  /\ wmi' = [wmi EXCEPT ![w] = 0]
  /\ wpc' = [wpc EXCEPT ![w] = IF InChunk(w, wpp[w] + 1) THEN "l58"
                                ELSE "completed"]
  /\ incsAfter' = CountAfter(incsAfter, w, interrupted)
  /\ UNCHANGED <<nPerm, nThreads, tPresent, tKind, pcMain, ii, obs, nulls,
                 chunkPerms, startIdx, interrupted, userInterrupt, writers,
                 startFlag, wcut, np, disc, pairsAfter, poolVars>>

Worker(w) == Start(w) \/ Check(w) \/ WriteStats(w) \/ Progress(w)

Main == DiscoveryRow \/ ObservedRow \/ Partition \/ Spawn \/ MonitorInterrupt
        \/ MonitorDone \/ Join \/ Convert

Next == Main \/ UserInterrupt \/ (\E w \in Workers : Worker(w))

Spec == Init /\ [][Next]_vars

\* the same procedure on every test dataset of TestDatasets
SpecData == InitData /\ [][Next]_vars

\* Spec with the history counters
SpecHistory == InitHistory /\ [][Next]_vars

\* The operating system schedules every runnable thread; only the user's
\* interrupt is left to chance.
FairSpec ==
  /\ Init
  /\ [][Next]_vars
  /\ WF_vars(Main)
  /\ \A w \in Workers : WF_vars(Worker(w))


\* ============================ NetworkProperties / NetworkPropertiesNoData
NSamples == 2     \* rows of 'data' (samples)

\* the sequences that enumerate the set S, each element once: the orders in
\* which an unordered_multimap may hand out the members of a module
RECURSIVE SeqsOf(_)
SeqsOf(S) ==
  IF S = {} THEN {<<>>}
  ELSE UNION {{<<x>> \o q : q \in SeqsOf(S \ {x})} : x \in S}

Range(q) == {q[k] : k \in 1 .. Len(q)}

\* colnames(net): the node names of the dataset, in matrix order
NodeNameLists == UNION {SeqsOf(S) : S \in SUBSET Nodes}

\* MakeIdxMap(names): name -> 0-based position
MakeIdxMap(names) ==
  [n \in Range(names) |-> (CHOOSE k \in 1 .. Len(names) : names[k] = n) - 1]

\* the edge weight between two node names: 2, 4, 6 between the first three
\* names, 1 on the diagonal
Weight(a, b) == IF a = b THEN 1 ELSE 2 * (a + b)

\* the matrix 'net', indexed by 0-based positions in nodeNames
NetAt(nodeNames, i, j) == Weight(nodeNames[i + 1], nodeNames[j + 1])

\* GetNodeIdx(mod, modNodePresentMap, idxMap): the indices of the names in the
\* order 'order' in which the map hands them out
GetNodeIdx(order, idxMap) == [k \in 1 .. Len(order) |-> idxMap[order[k]]]

\* the number of entries of idx that are less than v, or at most v
Below(idx, v) == Cardinality({l \in 1 .. Len(idx) : idx[l] < v})
UpTo(idx, v) == Cardinality({l \in 1 .. Len(idx) : idx[l] <= v})

\* sortNodes(idx): idx in ascending order (an index that occurs more than
\* once keeps all its entries) ...
SortedIdx(idx) ==
  [k \in 1 .. Len(idx) |->
     CHOOSE v \in Range(idx) : Below(idx, v) <= k - 1 /\ k - 1 < UpTo(idx, v)]

\* ... and the returned rank: the 0-based position of idx[k] in sorted order
RankOf(idx) ==
  [k \in 1 .. Len(idx) |->
     Below(idx, idx[k])
       + Cardinality({l \in 1 .. k - 1 : idx[l] = idx[k]})]

RECURSIVE SumOver(_, _)
SumOver(f, S) ==
  IF S = {} THEN 0
  ELSE LET j == CHOOSE x \in S : TRUE
       IN f[j] + SumOver(f, S \ {j})

\* WeightedDegree(net, idx): for each entry of idx the sum of the weights to
\* the other entries of idx, aligned to idx
WeightedDegree(nodeNames, idx) ==
  [k \in 1 .. Len(idx) |->
     SumOver([l \in 1 .. Len(idx) |-> NetAt(nodeNames, idx[k], idx[l])],
             (1 .. Len(idx)) \ {k})]

\* the contribution of a node name to the summary profile of its module: a
\* finite value of its own
ContributionOf(n) == 100 + n

\* NodeContribution(data, idx, SP): aligned to idx
NodeContribution(nodeNames, idx) ==
  [k \in 1 .. Len(idx) |-> ContributionOf(nodeNames[idx[k] + 1])]

\* SummaryProfile(data, idx): one value per sample
SummaryProfile(idx) == [s \in 1 .. NSamples |-> MeanClass(Len(idx))]

\* v(rank): the elements of v at the 0-based positions rank[1], rank[2], ...
SubscriptMutant(v, rank) == [k \in 1 .. Len(rank) |-> v[k]]
Subscript(v, rank) == [k \in 1 .. Len(rank) |-> v[rank[k] + 1]]

\* Fill(results, values, propIdx): results[propIdx[k]] = values[k]
Fill(results, values, propIdx) ==
  [i \in 1 .. Len(results) |->
     IF \E k \in 1 .. Len(propIdx) : propIdx[k] + 1 = i
     THEN values[CHOOSE k \in 1 .. Len(propIdx) : propIdx[k] + 1 = i]
     ELSE results[i]]

\* Rcpp::NumericVector(n, NA_REAL)  (mutant: Rcpp::NumericVector(n), zeros)
NAVectorMutant(n) == [i \in 1 .. n |-> "Zero"]
NAVector(n) == [i \in 1 .. n |-> "NA"]

\* lines 105 / 227: if (nodeIdx.size() > 0)
HasNodesMutant(nodeIdx) == Len(nodeIdx) >= 0
HasNodes(nodeIdx) == Len(nodeIdx) > 0

\* One iteration of the loop of NetworkProperties (lines 81-133) or of
\* NetworkPropertiesNoData (lines 207-245) for the module mod: modNodeNames is
\* the order in which modNodeMap hands out the members, present the order in
\* which modNodePresentMap hands out those the dataset holds.
ModuleResult(variant, nodeNames, mod, modNodeNames, present) ==
  LET nodeIdxMap == MakeIdxMap(nodeNames)
      propIdxMap == MakeIdxMap(modNodeNames)
      idx0       == GetNodeIdx(present, nodeIdxMap)
      propIdx    == GetNodeIdx(present, propIdxMap)
      computed   == HasNodes(idx0)
      nodeRank   == RankOf(idx0)
      nodeIdx    == SortedIdx(idx0)
      WD         == Subscript(WeightedDegree(nodeNames, nodeIdx), nodeRank)
      NC         == Subscript(NodeContribution(nodeNames, nodeIdx), nodeRank)
      withData   == variant = "data"
  IN [mod          |-> mod,
      modNodeNames |-> modNodeNames,
      idx0         |-> idx0,
      nodeIdx      |-> IF computed THEN nodeIdx ELSE idx0,
      nodeRank     |-> IF computed THEN nodeRank ELSE <<>>,
      computed     |-> computed,
      WD           |-> IF computed THEN WD ELSE <<>>,
      NC           |-> IF computed /\ withData THEN NC ELSE <<>>,
      degree       |-> IF computed
                       THEN Fill(NAVector(Len(modNodeNames)), WD, propIdx)
                       ELSE NAVector(Len(modNodeNames)),
      avgWeight    |-> IF computed THEN MeanClass(Len(WD)) ELSE "NA",
      contribution |-> IF ~withData THEN <<>>
                       ELSE IF computed
                       THEN Fill(NAVector(Len(modNodeNames)), NC, propIdx)
                       ELSE NAVector(Len(modNodeNames)),
      coherence    |-> IF ~withData THEN "absent"
                       ELSE IF computed THEN MeanClass(Len(NC)) ELSE "NA",
      summary      |-> IF ~withData THEN <<>>
                       ELSE IF computed THEN SummaryProfile(nodeIdx)
                       ELSE NAVector(NSamples)]

PermIdle ==
  /\ nPerm = 1
  /\ nThreads = 1
  /\ tPresent = {}
  /\ tKind = "regular"
  /\ pcMain = "off"
  /\ ii = 0
  /\ obs = <<>>
  /\ nulls = <<>>
  /\ chunkPerms = <<>>
  /\ startIdx = <<>>
  /\ progress = <<>>
  /\ interrupted = FALSE
  /\ userInterrupt = FALSE
  /\ wpc = <<>>
  /\ wpp = <<>>
  /\ wmi = <<>>
  /\ writers = <<>>
  /\ startFlag = <<>>
  /\ wcut = <<>>
  /\ disc = {}
  /\ pairsAfter = <<>>
  /\ incsAfter = <<>>

\* the state on entry to the loop over 'mods' (line 81 / line 207)
InitProps ==
  /\ PermIdle
  /\ PoolIdle
  /\ \E variant \in {"data", "nodata"}, nodeNames \in NodeNameLists :
       np = [pc |-> "loop", variant |-> variant, nodeNames |-> nodeNames,
             mi |-> 0, results |-> <<>>]

PropsStep(variant) ==
  /\ np.pc = "loop"
  /\ np.variant = variant
  /\ \E modNodeNames \in SeqsOf(Members(np.mi)) :
       \E present \in SeqsOf(Members(np.mi) \cap Range(np.nodeNames)) :
         np' = [np EXCEPT
                  !.results = Append(@, ModuleResult(variant, np.nodeNames,
                                                     np.mi, modNodeNames,
                                                     present)),
                  !.mi = @ + 1,
                  !.pc = IF np.mi + 1 < NMods THEN "loop" ELSE "done"]
  /\ UNCHANGED permVars
  /\ UNCHANGED poolVars

\* NetworkProperties, lines 81-133
NetworkPropertiesStep == PropsStep("data")

\* NetworkPropertiesNoData, lines 207-245
NetworkPropertiesNoDataStep == PropsStep("nodata")

NextProps == NetworkPropertiesStep \/ NetworkPropertiesNoDataStep

SpecProps == InitProps /\ [][NextProps]_vars

\* ========================================== the permutable pool (SpecPool)
\* The inputs tried: names(moduleAssignments), colnames(tNet) and
\* colnames(dNet), in their order. In the first the datasets hold the same
\* nodes in different orders, in the second the test dataset has a node the
\* assignment does not name, in the third the assignment names a node (1)
\* the test dataset does not hold.
PoolCases ==
  {[aNames |-> <<0, 1, 2>>, tNames |-> <<2, 0, 1>>, dNames |-> <<1, 2, 0>>],
   [aNames |-> <<0, 1>>,    tNames |-> <<1, 2, 0>>, dNames |-> <<1, 0>>],
   [aNames |-> <<0, 1, 2>>, tNames |-> <<2, 0>>,    dNames |-> <<0, 2, 1>>]}

\* a module of three members (0, 2, 3), in datasets that hold every node of
\* the assignment
AlignCases ==
  {[aNames |-> <<0, 1, 2, 3>>, tNames |-> <<3, 1, 0, 2>>,
    dNames |-> <<2, 3, 1, 0>>]}

\* MakeModMap(moduleAssignments) (line 185): module label -> member names,
\* handed out in an order of the map's own; the maps that can result
MembersIn(names, m) == {n \in Range(names) : ModuleOf(n) = m}

MakeModMap(names) ==
  {f \in [ModRows -> UNION {SeqsOf(MembersIn(names, m)) : m \in ModRows}] :
     \A m \in ModRows : f[m] \in SeqsOf(MembersIn(names, m))}

\* the members the map hands out for a label that the table idxMap holds
\* (GetNodeIdx, GetRandomIdx: names the table lacks are left out)
HeldNames(order, idxMap) == SelectSeq(order, LAMBDA n : n \in DOMAIN idxMap)

PoolThreads == 0 .. pin.nThreads - 1

\* modNodeMap = MakeModMap(moduleAssignments): the member names of a module
PoolMembers(m) == {n \in Range(pin.aNames) : ModuleOf(n) = m}

\* nullIdx.set_size(n) (lines 226, 229): n entries that hold whatever the
\* memory held, here the value g
SetSize(n, g) == [k \in 1 .. n |-> g]

\* the values an entry that was never assigned may hold: a valid index or one
\* past the last
Uninitialised == 0 .. Len(pin.tNames)

\* MakeNullMap(names, tIdxMap, nullIdx): the entry of nullIdx at the position
\* of a name is set to the test index of the name, and the table maps the
\* name to that position; a name the test dataset does not hold is left out
MakeNullMap(names, idxMap, idx) ==
  LET held == {k \in 1 .. Len(names) : names[k] \in DOMAIN idxMap}
  IN [idx |-> [k \in 1 .. Len(idx) |->
                 IF k \in held THEN idxMap[names[k]] ELSE idx[k]],
      map |-> [n \in {names[k] : k \in held} |->
                 (CHOOSE k \in held : names[k] = n) - 1]]

\* lines 224-231: the names that are pooled under the null hypothesis
PooledNames(nullType) ==
  IF nullType = "overlap" THEN pin.aNames ELSE pin.tNames

\* arma::shuffle(nullIdx): the entries in any order
ShufflesMutant(pool) ==
  {[k \in 1 .. Len(pool) |-> pool[f[k]]] :
     f \in [1 .. Len(pool) -> 1 .. Len(pool)]}
Shuffles(pool) ==
  {[k \in 1 .. Len(pool) |-> pool[q[k]]] : q \in SeqsOf(1 .. Len(pool))}

\* GetRandomIdx(mod, modNodeMap, nullIdx, nullMap): for each member name the
\* map hands out, the entry of the pool at the name's position
GetRandomIdx(order, pool, map) ==
  [k \in 1 .. Len(order) |-> pool[map[order[k]] + 1]]

\* the stored correlation coefficient of two node names (times a constant),
\* a value of its own for every pair of the names tried
CorrOf(a, b) == IF a = b THEN 1 ELSE 2 + a * a + b * b

\* the matrix 'corr', indexed by 0-based positions in nodeNames
CorrAt(nodeNames, i, j) == CorrOf(nodeNames[i + 1], nodeNames[j + 1])

\* the place of the pair (j, k), j < k, of positions of idx in the upper
\* triangle
PairRank(j, k) == ((k - 1) * (k - 2)) \div 2 + j

\* CorrVector(corr, idx): the coefficients of the unordered pairs of idx, in
\* the order of the upper triangle
CorrVector(nodeNames, idx) ==
  [p \in 1 .. CorrVectorLen(Len(idx)) |->
     LET pr == CHOOSE q \in (1 .. Len(idx)) \X (1 .. Len(idx)) :
                 q[1] < q[2] /\ PairRank(q[1], q[2]) = p
     IN CorrAt(nodeNames, idx[pr[1]], idx[pr[2]])]

\* the value of a statistic: the operation and the vectors it was applied to
Stat(f, x, y) == [f |-> f, x |-> x, y |-> y]

AverageEdgeWeight(WD) == Stat("AverageEdgeWeight", <<>>, WD)
ModuleCoherence(NC) == Stat("ModuleCoherence", <<>>, NC)
Correlation(x, y) == Stat("Correlation", x, y)
SignAwareMean(x, y) == Stat("SignAwareMean", x, y)

\* lines 245-253: the vectors of a module in the discovery dataset; CorrVector
\* takes dIdx as GetNodeIdx returned it, the other two the sorted dIdx, and
\* their results are put back in the first order by dRank
DiscVectors(nodeNames, dIdx) ==
  [CV |-> CorrVector(nodeNames, dIdx),
   WD |-> Subscript(WeightedDegree(nodeNames, SortedIdx(dIdx)), RankOf(dIdx)),
   NC |-> Subscript(NodeContribution(nodeNames, SortedIdx(dIdx)),
                    RankOf(dIdx))]

\* lines 271-276: the same for the test dataset, on the observed path
ObsVectors(nodeNames, idx) ==
  [CV |-> CorrVector(nodeNames, idx),
   WD |-> Subscript(WeightedDegree(nodeNames, SortedIdx(idx)), RankOf(idx)),
   NC |-> Subscript(NodeContribution(nodeNames, SortedIdx(idx)), RankOf(idx))]

\* lines 67-75: the same in calculateNulls
NullVectorsMutant(nodeNames, idx) ==
  [CV |-> CorrVector(nodeNames, idx),
   WD |-> WeightedDegree(nodeNames, SortedIdx(idx)),
   NC |-> NodeContribution(nodeNames, SortedIdx(idx))]
NullVectors(nodeNames, idx) ==
  [CV |-> CorrVector(nodeNames, idx),
   WD |-> Subscript(WeightedDegree(nodeNames, SortedIdx(idx)), RankOf(idx)),
   NC |-> Subscript(NodeContribution(nodeNames, SortedIdx(idx)), RankOf(idx))]

\* lines 281-287: the row of 'obs' of a module, by column
ObservedStats(cache, t) ==
  [c \in Cols |->
     CASE c = 0 -> AverageEdgeWeight(t.WD)
       [] c = 1 -> ModuleCoherence(t.NC)
       [] c = 2 -> Correlation(cache.CV, t.CV)
       [] c = 3 -> Correlation(cache.WD, t.WD)
       [] c = 4 -> Correlation(cache.NC, t.NC)
       [] c = 5 -> SignAwareMean(cache.CV, t.CV)
       [] c = 6 -> SignAwareMean(cache.NC, t.NC)]

\* lines 81-87: the cells of a slice of 'nulls' of a module, by column
NullStatsMutant(cache, t) ==
  [c \in Cols |->
     CASE c = 0 -> AverageEdgeWeight(t.WD)
       [] c = 1 -> ModuleCoherence(t.NC)
       [] c = 2 -> Correlation(cache.CV, t.CV)
       [] c = 3 -> Correlation(cache.WD, t.WD)
       [] c = 4 -> Correlation(cache.NC, t.NC)
       [] c = 5 -> SignAwareMean(cache.NC, t.NC)
       [] c = 6 -> SignAwareMean(cache.CV, t.CV)]
NullStats(cache, t) ==
  [c \in Cols |->
     CASE c = 0 -> AverageEdgeWeight(t.WD)
       [] c = 1 -> ModuleCoherence(t.NC)
       [] c = 2 -> Correlation(cache.CV, t.CV)
       [] c = 3 -> Correlation(cache.WD, t.WD)
       [] c = 4 -> Correlation(cache.NC, t.NC)
       [] c = 5 -> SignAwareMean(cache.CV, t.CV)
       [] c = 6 -> SignAwareMean(cache.NC, t.NC)]

\* an index past the last node of the test dataset reads outside the test
\* matrices: the seven cells then hold whatever was read
ArbitraryRows ==
  {[c \in Cols |-> Stat("arbitrary", <<>>, <<v>>)] : v \in 0 .. 1}

\* the rows lines 67-87 can store for the index vector idx
NullRows(cache, nodeNames, idx) ==
  IF \A k \in 1 .. Len(idx) : idx[k] < Len(nodeNames)
  THEN {NullStats(cache, NullVectors(nodeNames, idx))}
  ELSE ArbitraryRows

\* line 268: tIdx = GetNodeIdx(mod, modNodeMap, tIdxMap), the indices of the
\* members in the test dataset
RealIdx(mod) ==
  GetNodeIdx(HeldNames(pin.modNodeMap[mod], MakeIdxMap(pin.tNames)),
             MakeIdxMap(pin.tNames))

\* line 241: dIdx = GetNodeIdx(mod, modNodeMap, dIdxMap)
DiscIdx(mod) ==
  GetNodeIdx(HeldNames(pin.modNodeMap[mod], MakeIdxMap(pin.dNames)),
             MakeIdxMap(pin.dNames))

\* the parameter nullIdx of calculateNulls is handed over by value (line 43):
\* worker w shuffles and reads the copy it was given
PoolSlotMutant(w) == 0
PoolSlot(w) == w

NoDraw ==
  [drawn |-> FALSE, mi |-> 0, names |-> <<>>, idx |-> <<>>, modIdx |-> 0,
   stats |-> [c \in Cols |-> Stat("none", <<>>, <<>>)]]

\* the state on entry to line 222, for the inputs of 'cases' with up to maxP
\* permutations on up to maxT threads
InitPoolOn(cases, maxP, maxT) ==
  /\ PermIdle
  /\ np = PropsIdle
  /\ \E c \in cases, nullType \in {"overlap", "all"},
        nP \in 1 .. maxP, nT \in 1 .. maxT :
       \E modNodeMap \in MakeModMap(c.aNames) :
         pin = [nullType |-> nullType, aNames |-> c.aNames,
                tNames |-> c.tNames, dNames |-> c.dNames,
                modNodeMap |-> modNodeMap, nPerm |-> nP, nThreads |-> nT]
  /\ pcPool = "pool"
  /\ nullIdx = <<>>
  /\ nullMap = <<>>
  /\ wNullIdx = [w \in Workers |-> <<>>]
  /\ wNullMap = [w \in Workers |-> <<>>]
  /\ poolPc = [w \in Workers |-> "none"]
  /\ poolPp = [w \in Workers |-> 0]
  /\ poolMi = [w \in Workers |-> 0]
  /\ tIdx = [w \in Workers |-> NoDraw]
  /\ shuffled = [w \in Workers |-> <<>>]
  /\ discVec = <<>>
  /\ obsStat = <<>>
  /\ permIdx = [w \in Workers |-> <<>>]

InitPool == InitPoolOn(PoolCases, MaxPerm, MaxThreads)

\* one thread, one permutation, the inputs of AlignCases
InitAlign == InitPoolOn(AlignCases, 1, 1)

\* lines 222-231: size the pool, fill it and build the table
BuildPool ==
  /\ pcPool = "pool"
  /\ \E g \in Uninitialised :
       LET names == PooledNames(pin.nullType)
           built == MakeNullMap(names, MakeIdxMap(pin.tNames),
                                SetSize(Len(names), g))
       IN /\ nullIdx' = built.idx
          /\ nullMap' = built.map
  /\ pcPool' = "observe"
  /\ UNCHANGED <<pin, wNullIdx, wNullMap, poolPc, poolPp, poolMi, tIdx,
                 shuffled, discVec, obsStat, permIdx>>
  /\ UNCHANGED <<permVars, np>>

\* lines 238-288: the discovery cache is filled, then the observed matrix,
\* for every requested module in turn
CacheAndObserve ==
  /\ pcPool = "observe"
  /\ LET cache == [mod \in {ModAt(mi) : mi \in ModRows} |->
                     DiscVectors(pin.dNames, DiscIdx(mod))]
     IN /\ discVec' = cache
        /\ obsStat' =
             [row \in {ModIdx(mi) : mi \in ModRows} |->
                LET mod == ModAt(CHOOSE mi \in ModRows : ModIdx(mi) = row)
                IN ObservedStats(cache[mod],
                                 ObsVectors(pin.tNames, RealIdx(mod)))]
  /\ pcPool' = "spawn"
  /\ UNCHANGED <<pin, nullIdx, nullMap, wNullIdx, wNullMap, poolPc, poolPp,
                 poolMi, tIdx, shuffled, permIdx>>
  /\ UNCHANGED <<permVars, np>>

\* the ii of the spawn loop: the threads created so far
SpawnIndex == Cardinality({w \in Workers : poolPc[w] # "none"})

\* lines 329-337: the next thread is created with its own copy of nullIdx and
\* of nullMap
SpawnPool ==
  /\ pcPool = "spawn"
  /\ LET k == SpawnIndex
     IN /\ wNullIdx' = [wNullIdx EXCEPT ![k] = nullIdx]
        /\ wNullMap' = [wNullMap EXCEPT ![k] = nullMap]
        /\ poolPc' = [poolPc EXCEPT ![k] = "l55"]
        /\ pcPool' = IF k + 1 < pin.nThreads THEN "spawn" ELSE "join"
  /\ UNCHANGED <<pin, nullIdx, nullMap, poolPp, poolMi, tIdx, shuffled,
                 discVec, obsStat, permIdx>>
  /\ UNCHANGED <<permVars, np>>

\* lines 55-57: another permutation of the chunk begins with a shuffle of the
\* worker's pool, or the chunk is done and the worker returns
Shuffle(w) ==
  /\ poolPc[w] = "l55"
  /\ IF poolPp[w] < ChunkPerms(pin.nPerm, pin.nThreads)[w]
     THEN \E s \in Shuffles(wNullIdx[PoolSlot(w)]) :
            /\ wNullIdx' = [wNullIdx EXCEPT ![PoolSlot(w)] = s]
            /\ shuffled' = [shuffled EXCEPT ![w] = s]
            /\ permIdx' = [permIdx EXCEPT ![w] = <<>>]
            /\ poolMi' = [poolMi EXCEPT ![w] = 0]
            /\ poolPc' = [poolPc EXCEPT ![w] = "l64"]
     ELSE /\ poolPc' = [poolPc EXCEPT ![w] = "done"]
          /\ UNCHANGED <<wNullIdx, shuffled, permIdx, poolMi>>
  /\ UNCHANGED <<pin, pcPool, nullIdx, nullMap, wNullMap, poolPp, tIdx,
                 discVec, obsStat>>
  /\ UNCHANGED <<permVars, np>>

\* lines 60-90: the module *mi draws its index vector, in the order in which
\* modNodeMap hands out its members, and the seven statistics computed on it
\* are stored in the row modIdx; then ++mi and, after the last module, ++pp
Draw(w) ==
  /\ poolPc[w] = "l64"
  /\ LET mod   == ModAt(poolMi[w])
         order == HeldNames(pin.modNodeMap[mod], wNullMap[w])
         idx   == GetRandomIdx(order, wNullIdx[PoolSlot(w)], wNullMap[w])
     IN /\ \E row \in NullRows(discVec[mod], pin.tNames, idx) :
             tIdx' = [tIdx EXCEPT ![w] =
                        [drawn |-> TRUE, mi |-> poolMi[w], names |-> order,
                         idx |-> idx, modIdx |-> ModIdx(poolMi[w]),
                         stats |-> row]]
        /\ permIdx' = [permIdx EXCEPT ![w] = Append(@, idx)]
  /\ IF poolMi[w] + 1 < NMods
     THEN /\ poolMi' = [poolMi EXCEPT ![w] = @ + 1]
          /\ UNCHANGED <<poolPc, poolPp>>
     ELSE /\ poolPp' = [poolPp EXCEPT ![w] = @ + 1]
          /\ poolPc' = [poolPc EXCEPT ![w] = "l55"]
          /\ UNCHANGED poolMi
  /\ UNCHANGED <<pin, pcPool, nullIdx, nullMap, wNullIdx, wNullMap,
                 shuffled, discVec, obsStat>>
  /\ UNCHANGED <<permVars, np>>

\* lines 342-344: all threads are joined
JoinPool ==
  /\ pcPool = "join"
  /\ \A w \in PoolThreads : poolPc[w] = "done"
  /\ pcPool' = "done"
  /\ UNCHANGED <<pin, nullIdx, nullMap, wNullIdx, wNullMap, poolPc, poolPp,
                 poolMi, tIdx, shuffled, discVec, obsStat, permIdx>>
  /\ UNCHANGED <<permVars, np>>

NextPool ==
  \/ BuildPool
  \/ CacheAndObserve
  \/ SpawnPool
  \/ JoinPool
  \/ \E w \in Workers : Shuffle(w) \/ Draw(w)

SpecPool == InitPool /\ [][NextPool]_vars

\* the same procedure on the inputs of AlignCases
SpecAlign == InitAlign /\ [][NextPool]_vars

\* ===================================================== properties (Spec)
Joined == pcMain \in {"convert", "returned"}

InLoop(w) == wpc[w] \in CheckLines \cup {"l81", "l89"}

\* the slices [startIdx[t], startIdx[t] + chunkPerms[t]) of thread t
OwnSlices(t) == startIdx[t] .. (startIdx[t] + chunkPerms[t] - 1)

Written(c) == writers[c] # <<>>

\* C1: each cell of the null cube is written by at most one worker and at
\* most once; worker t writes only slices of [startIdx[t], startIdx[t] +
\* chunkPerms[t]), and these ranges are pairwise disjoint.
C1_DisjointWriters ==
  /\ \A c \in NullCells :
       /\ Len(writers[c]) <= 1
       /\ \A k \in 1 .. Len(writers[c]) :
            /\ writers[c][k] \in Threads
            /\ c[3] \in OwnSlices(writers[c][k])
  /\ \A t, u \in Threads : t # u => OwnSlices(t) \cap OwnSlices(u) = {}

\* two workers have written their slices and the call has returned
C1_Witness ==
  /\ pcMain = "returned"
  /\ \E c, d \in NullCells :
       /\ Written(c) /\ Written(d)
       /\ writers[c][1] # writers[d][1]

\* C2: thread t gets floor(nPerm / nThreads) permutations, plus one exactly
\* when t < nPerm mod nThreads; the chunks add up to nPerm and no two of
\* them differ by more than 1.
C2_ChunkSizes ==
  pcMain \notin {"discovery", "observed", "partition"} =>
    /\ \A t \in Threads :
         chunkPerms[t] = (nPerm \div nThreads)
                           + (IF t < nPerm % nThreads THEN 1 ELSE 0)
    /\ SumChunks(chunkPerms, Threads) = nPerm
    /\ \A t, u \in Threads : chunkPerms[t] - chunkPerms[u] <= 1

\* more threads than permutations: one thread has work, another has none
C2_Witness ==
  /\ pcMain = "spawn"
  /\ nThreads > nPerm
  /\ \E t, u \in Threads : chunkPerms[t] = 1 /\ chunkPerms[u] = 0

\* every worker found the flag set when it began to run
AllStartedCancelled ==
  \A t \in Threads : wpc[t] \notin {"none", "spawned"} /\ startFlag[t]

AllMissing == \A c \in NullCells : nulls[c] = "NA" /\ ~Written(c)

\* C3: if the flag is already true when the workers start to run, no worker
\* writes a cell, after the join every cell of the cube still holds the
\* missing marker, and the call does not deadlock: until it has returned,
\* some thread can take a step.
C3_CancelledAtStart ==
  AllStartedCancelled =>
    /\ AllMissing
    /\ pcMain # "returned" => ENABLED (Main \/ \E w \in Workers : Worker(w))

\* the call has returned, every worker was cancelled at its first check
C3_Witness ==
  /\ pcMain = "returned"
  /\ nThreads > 1
  /\ AllStartedCancelled
  /\ \A t \in Threads : wcut[t] = "l58"

AllWritten(m, p) == \A s \in Cols : Len(writers[<<m, s, p>>]) = 1
NoneWritten(m, p) ==
  \A s \in Cols : ~Written(<<m, s, p>>) /\ nulls[<<m, s, p>>] = "NA"

\* C4: after the join, the seven cells of every (module, slice) pair are
\* either all written or all still the pre-filled missing marker, whenever
\* the flag was set.
C4_AllOrNothing ==
  Joined => \A m \in ModRows, p \in Slices : AllWritten(m, p) \/ NoneWritten(m, p)

\* a worker was cut in the middle of an iteration (after its first statistic)
\* whose cells are left missing, and another pair was written
C4_Witness ==
  /\ pcMain = "convert"
  /\ \E w \in Threads :
       /\ wcut[w] \in {"l68", "l72", "l74", "l76"}
       /\ NoneWritten(ModIdx(wmi[w]), wpp[w])
  /\ \E m \in ModRows, p \in Slices : AllWritten(m, p)

\* the states of a worker in the words of the design
WState(w) ==
  CASE wpc[w] = "none" -> "Idle"
    [] wpc[w] = "completed" -> "Completed"
    [] wpc[w] = "cancelled" -> "Cancelled"
    [] OTHER -> "Running"

LifecycleStep(a, b) ==
  \/ a = b
  \/ a = "Idle" /\ b = "Running"
  \/ a = "Running" /\ b \in {"Completed", "Cancelled"}

\* C5: a worker goes Idle -> Running -> (Completed | Cancelled) and stays
\* there; Completed means its chunk is exhausted, Cancelled that the flag is
\* set; under fair scheduling all workers end, are joined, and the call
\* returns a cube of modules x 7 x nPerm, cancelled or not.
C5_WorkerLifecycle ==
  /\ <>(pcMain = "returned")
  /\ [][\A w \in Workers : LifecycleStep(WState(w), WState(w)')]_vars
  /\ [](\A t \in Threads :
          /\ WState(t) = "Completed" => progress[t] = chunkPerms[t]
          /\ WState(t) = "Cancelled" => interrupted)
  /\ [](pcMain = "returned" =>
          /\ \A t \in Threads : WState(t) \in {"Completed", "Cancelled"}
          /\ DOMAIN nulls = ModRows \X (0 .. 6) \X (0 .. nPerm - 1))

\* the call has returned with one worker cancelled and one completed
C5_Witness ==
  /\ pcMain = "returned"
  /\ \E t, u \in Threads :
       /\ WState(t) = "Cancelled"
       /\ WState(u) = "Completed" /\ chunkPerms[u] > 0

\* C6 as stated: every worker still in its loop when the flag is set ends by
\* observing the flag, so none of them ends Completed.
C6_EveryWorkerObserves ==
  [][\A w \in Workers : interrupted /\ InLoop(w) => wpc'[w] # "completed"]_vars

\* C6, amended: a requested cancellation is propagated into the flag unless
\* the monitor first finds every permutation completed; once the flag is set,
\* a worker that reaches a check returns there, a worker past its last check
\* finishes its chunk, and in both cases the join and the call complete.
C6_CancellationPropagates ==
  /\ [][pcMain = "monitor" /\ pcMain' # "monitor"
          => (userInterrupt /\ interrupted')
               \/ SumChunks(progress, Threads) = nPerm]_vars
  /\ [][\A w \in Workers :
          interrupted /\ wpc[w] \in CheckLines /\ wpc'[w] # wpc[w]
            => wpc'[w] = "cancelled"]_vars
  /\ [](Joined => \A t \in Threads : Returned(wpc[t]))
  /\ userInterrupt ~> (pcMain = "returned")

\* the interrupt was requested and propagated, a worker observed it in the
\* middle of its chunk, and the call has returned
C6_Witness ==
  /\ pcMain = "returned"
  /\ userInterrupt /\ interrupted
  /\ \E t \in Threads : wpc[t] = "cancelled" /\ wcut[t] # "l58"

C9_NoNonFinite ==
  pcMain = "returned" =>
    /\ \A c \in ObsCells : obs[c] \notin {"NaN", "Inf", "NegInf"}
    /\ \A c \in NullCells : nulls[c] \notin {"NaN", "Inf", "NegInf"}

\* what a statistic of class v is returned as
ReturnedAs(v) == IF v = "NaN" THEN "NA" ELSE v

\* C9, amended: every NaN is returned as the missing marker; an infinite
\* statistic is returned as it is.
C9_NaNOnly ==
  pcMain = "returned" =>
    /\ \A c \in ObsCells :
         obs[c] = ReturnedAs(StatClass(IdxSize(c[1], tPresent), tKind, c[2]))
    /\ \A c \in NullCells :
         nulls[c] = IF Written(c)
                    THEN ReturnedAs(StatClass(IdxSize(c[1], tPresent), tKind,
                                              c[2]))
                    ELSE "NA"

\* returned with an infinite statistic, and a NaN statistic now missing, in
\* both outputs
C9_Witness ==
  /\ pcMain = "returned"
  /\ \E c, d \in ObsCells : obs[c] = "Inf" /\ obs[d] = "NA"
  /\ \E c, d \in NullCells :
       /\ nulls[c] = "Inf"
       /\ Written(d) /\ nulls[d] = "NA"

\* C13: a worker increments its own progress slot exactly once per
\* permutation, only after it has stored all modules of that permutation; no
\* thread writes another thread's slot and no slot ever decreases.
C13_ProgressOwnSlot ==
  /\ [][\A t \in Threads :
          progress'[t] # progress[t] =>
            /\ progress'[t] = progress[t] + 1
            /\ wpc[t] = "l89" /\ wpc'[t] # "l89"
            /\ wpp'[t] = wpp[t] + 1
            /\ \A m \in ModRows, s \in Cols :
                 writers[<<m, s, wpp[t]>>] = <<t>>
            /\ \A u \in Threads \ {t} : progress'[u] = progress[u]]_vars
  /\ [](\A t \in Threads :
          wpc[t] # "none" => progress[t] = wpp[t] - startIdx[t])

\* a worker has counted the two permutations of its chunk and the call returned
C13_Witness ==
  /\ pcMain = "returned"
  /\ \E t \in Threads : progress[t] = 2 /\ wpc[t] = "completed"

\* the cache once the discovery loop has run: the computed vectors under the
\* label of every requested module
FullCache == {<<ModAt(m), "computed">> : m \in ModRows}

ParallelPhase == \E w \in Workers : wpc[w] # "none"

\* C15: the discovery cache is fully built before any worker is spawned and
\* no worker adds, removes or changes an entry of it: every label a worker
\* looks up is already a key.
C15_CacheReadOnly ==
  /\ pcMain # "discovery" => disc = FullCache
  /\ ParallelPhase =>
       /\ pcMain \notin {"discovery", "observed", "partition"}
       /\ disc = FullCache
       /\ \A w \in Workers :
            wpc[w] = "l81" => \E e \in disc : e[1] = ModAt(wmi[w])

\* two workers have looked up the cache for their stores, the call returned
C15_Witness ==
  /\ pcMain = "returned"
  /\ disc = FullCache
  /\ \A t \in Threads : \E c \in NullCells : writers[c] = <<t>>
  /\ nThreads > 1

\* C17: the slices of the threads are contiguous and cover the cube:
\* startIdx[0] = 0, startIdx[i] is the sum of the chunks before i, the ranges
\* [startIdx[i], startIdx[i] + chunkPerms[i]) make up [0, nPerm); so without
\* a cancellation every cell has been written exactly once after the join.
C17_SlicesCover ==
  /\ pcMain \notin {"discovery", "observed", "partition"} =>
       /\ startIdx[0] = 0
       /\ \A i \in Threads : startIdx[i] = SumChunks(chunkPerms, 0 .. i - 1)
       /\ \A i \in Threads \ {0} :
            startIdx[i] = startIdx[i - 1] + chunkPerms[i - 1]
       /\ UNION {OwnSlices(t) : t \in Threads} = 0 .. nPerm - 1
  /\ Joined /\ ~interrupted => \A c \in NullCells : Len(writers[c]) = 1

\* joined without cancellation: two threads, each with a slice of its own
C17_Witness ==
  /\ pcMain = "convert"
  /\ ~interrupted
  /\ nThreads = 2 /\ nPerm = 2
  /\ startIdx[1] = 1
  /\ \A c \in NullCells : Len(writers[c]) = 1

CountedSlices(t) == startIdx[t] .. startIdx[t] + progress[t] - 1

\* C22: in the parallel phase the progress counter of each worker is at most
\* its chunk size, the counters add up to at most nPerm, every slice a worker
\* has counted holds all seven cells of every requested module, and without
\* a cancellation the counters add up to exactly nPerm once the threads are
\* joined.
C22_ProgressBounds ==
  ParallelPhase =>
    /\ \A t \in Threads :
         /\ progress[t] <= chunkPerms[t]
         /\ \A p \in CountedSlices(t), m \in ModRows, s \in Cols :
              p \in Slices /\ Written(<<m, s, p>>)
    /\ SumChunks(progress, Threads) <= nPerm
    /\ Joined /\ ~interrupted => SumChunks(progress, Threads) = nPerm

\* a worker has counted the first permutation of its chunk and is at work on
\* the second, of which cells are written that it has not counted yet
C22_Witness ==
  \E t \in Threads :
    /\ progress[t] = 1
    /\ chunkPerms[t] = 2
    /\ InLoop(t)
    /\ Written(<<0, 0, startIdx[t] + 1>>)

\* the positions of a worker at which statistics of its current module have
\* been computed (CorrVector at line 67 is the first)
PastCorrVector == {"l68", "l72", "l74", "l76", "l81"}

\* C16: in the three entry points no statistic operation is invoked on an
\* empty index set, because the caller branches on the size of the index set
\* first: whenever the statistics of a module have been computed, on the
\* observed path, on the permutation path or by NetworkProperties /
\* NetworkPropertiesNoData, its index vector was not empty.
C16_NeverOnEmpty ==
  /\ pcMain # "off" =>
       /\ \A m \in ModRows :
            obs[<<ModIdx(m), 0>>] # "Uninit" => IdxSize(m, tPresent) > 0
       /\ \A w \in Workers :
            wpc[w] \in PastCorrVector => IdxSize(wmi[w], tPresent) > 0
  /\ np.pc # "off" =>
       \A i \in 1 .. Len(np.results) :
         np.results[i].computed => Len(np.results[i].idx0) > 0

\* ================================================ properties (SpecProps)
PresentMembers(r) == Members(r.mod) \cap Range(np.nodeNames)

AllNA(v) == \A i \in 1 .. Len(v) : v[i] = "NA"

\* C8: a requested module without a member in the dataset has an all-missing
\* result: every degree entry and avgWeight are NA and, with data, every
\* contribution entry, the coherence and the summary profile (one entry per
\* sample) are NA; no statistic is computed for it.
C8_EmptyModuleResult ==
  np.pc # "off" =>
    \A i \in 1 .. Len(np.results) :
      LET r == np.results[i]
      IN PresentMembers(r) = {} =>
           /\ ~r.computed
           /\ Len(r.degree) = Cardinality(Members(r.mod)) /\ AllNA(r.degree)
           /\ r.avgWeight = "NA"
           /\ np.variant = "data" =>
                /\ Len(r.contribution) = Cardinality(Members(r.mod))
                /\ AllNA(r.contribution)
                /\ r.coherence = "NA"
                /\ Len(r.summary) = NSamples /\ AllNA(r.summary)

\* the data variant has returned a module without present members next to a
\* module whose statistics were computed
C8_Witness ==
  /\ np.pc = "done"
  /\ np.variant = "data"
  /\ \E i, j \in 1 .. Len(np.results) :
       /\ PresentMembers(np.results[i]) = {}
       /\ AllNA(np.results[i].summary)
       /\ np.results[j].computed /\ np.results[j].avgWeight = "Fin"

\* the weighted degree of the node name n within the set S of node names
DegreeIn(n, S) == SumOver([m \in S |-> Weight(n, m)], S \ {n})

\* C10: sorting the index vector with sortNodes, computing WeightedDegree or
\* NodeContribution on the sorted indices and subscripting the result by the
\* rank gives, at position k, the value of the k-th node of the original
\* order: the vector computed directly in the original order.
C10_OrderTransparent ==
  np.pc # "off" =>
    \A i \in 1 .. Len(np.results) :
      LET r == np.results[i]
          nameAt(k) == np.nodeNames[r.idx0[k] + 1]
      IN r.computed =>
           /\ \A k \in 1 .. Len(r.nodeIdx) - 1 : r.nodeIdx[k] < r.nodeIdx[k + 1]
           /\ Len(r.WD) = Len(r.idx0)
           /\ \A k \in 1 .. Len(r.idx0) :
                r.WD[k] = DegreeIn(nameAt(k), PresentMembers(r))
           /\ r.WD = WeightedDegree(np.nodeNames, r.idx0)
           /\ np.variant = "data" =>
                /\ \A k \in 1 .. Len(r.idx0) :
                     r.NC[k] = ContributionOf(nameAt(k))
                /\ r.NC = NodeContribution(np.nodeNames, r.idx0)

\* a module of three present nodes drawn in an order whose rank is a 3-cycle
\* (the rank differs from its inverse)
C10_Witness ==
  /\ np.pc = "done"
  /\ np.variant = "data"
  /\ \E i \in 1 .. Len(np.results) :
       /\ np.results[i].computed
       /\ np.results[i].nodeRank = <<1, 2, 0>>

\* C14: the degree and contribution vectors of a module have one entry per
\* member node name; the entry of a member absent from the dataset is NA, the
\* entry of a present member is that member's own value, at the member's
\* position in the module's name list.
C14_PerNodeVectors ==
  np.pc # "off" =>
    \A i \in 1 .. Len(np.results) :
      LET r     == np.results[i]
          names == r.modNodeNames
          P     == PresentMembers(r)
      IN /\ Range(names) = Members(r.mod)
         /\ Len(names) = Cardinality(Members(r.mod))
         /\ Len(r.degree) = Len(names)
         /\ \A k \in 1 .. Len(names) :
              r.degree[k] = IF names[k] \in P THEN DegreeIn(names[k], P)
                            ELSE "NA"
         /\ np.variant = "data" =>
              /\ Len(r.contribution) = Len(names)
              /\ \A k \in 1 .. Len(names) :
                   r.contribution[k] = IF names[k] \in P
                                       THEN ContributionOf(names[k])
                                       ELSE "NA"

\* a module of three members, the second of its name list absent from the
\* dataset, the other two drawn in descending index order
C14_Witness ==
  /\ np.pc = "done"
  /\ np.variant = "data"
  /\ \E i \in 1 .. Len(np.results) :
       LET r == np.results[i]
       IN /\ Len(r.degree) = 3
          /\ r.modNodeNames[2] \notin PresentMembers(r)
          /\ r.degree[2] = "NA" /\ r.contribution[2] = "NA"
          /\ r.modNodeNames[1] \in PresentMembers(r)
          /\ r.modNodeNames[3] \in PresentMembers(r)
          /\ r.nodeRank = <<1, 0>>

\* ================================================= properties (SpecPool)
\* how often the value v occurs in the sequence q
Occurrences(q, v) == Cardinality({k \in 1 .. Len(q) : q[k] = v})

SameMultiset(a, b) ==
  /\ Len(a) = Len(b)
  /\ \A v \in Range(a) \cup Range(b) : Occurrences(a, v) = Occurrences(b, v)

\* C11: after any number of shuffles by any worker, the worker's pool is a
\* permutation of the initial pool: no entry is duplicated, dropped or
\* resampled.
C11_PoolIsPermutation ==
  pcPool # "off" =>
    \A w \in PoolThreads :
      poolPc[w] # "none" =>
        /\ SameMultiset(wNullIdx[w], nullIdx)
        /\ poolPp[w] > 0 => SameMultiset(shuffled[w], nullIdx)

\* a worker has shuffled twice and its pool of three entries is in another
\* order than the initial pool
C11_Witness ==
  /\ pcPool = "done"
  /\ \E w \in PoolThreads :
       /\ poolPp[w] = 2
       /\ Len(wNullIdx[w]) = 3
       /\ wNullIdx[w] # nullIdx

\* the index vector worker w holds was drawn from its pool as it is now
Fresh(w) == tIdx[w].drawn /\ ~(poolPc[w] = "l64" /\ poolMi[w] = 0)

\* the entries of the drawn vector are the pool values at the positions the
\* table gives for the names
DrawnFromPool(w) ==
  \A k \in 1 .. Len(tIdx[w].names) :
    tIdx[w].idx[k] = wNullIdx[w][wNullMap[w][tIdx[w].names[k]] + 1]

C19_PrivateShuffle ==
  /\ [][pcPool \notin {"off", "pool"} =>
          /\ nullIdx' = nullIdx
          /\ nullMap' = nullMap
          /\ \A u \in PoolThreads :
               poolPc[u] # "none" =>
                 /\ wNullMap'[u] = wNullMap[u]
                 /\ wNullIdx'[u] # wNullIdx[u]
                      => poolPc[u] = "l55" /\ poolPc'[u] = "l64"
                 /\ poolPc[u] = "l55" /\ poolPc'[u] = "l64"
                      => /\ wNullIdx'[u] \in Shuffles(wNullIdx[u])
                         /\ poolMi'[u] = 0
                         /\ poolPp'[u] = poolPp[u]
                 /\ poolPc[u] = "l64"
                      => /\ wNullIdx'[u] = wNullIdx[u]
                         /\ tIdx'[u] # tIdx[u] => tIdx'[u].drawn
                         /\ poolPp'[u] # poolPp[u] => poolPc'[u] = "l55"
                 /\ poolPc[u] # "l64" => poolPp'[u] = poolPp[u]]_vars
  /\ [](pcPool # "off" =>
          \A u \in PoolThreads :
            poolPc[u] = "l64" => wNullIdx[u] = shuffled[u])

\* two workers hold pools in different orders, one of them in the middle of
\* a permutation, and the pool of PermutationProcedure is in neither order
C19_Witness ==
  /\ pcPool # "off"
  /\ pin.nThreads = 2
  /\ poolPc[0] = "l64" /\ poolMi[0] = 1 /\ tIdx[0].drawn
  /\ poolPc[1] \in {"l64", "l55", "done"} /\ poolPp[1] = 1
  /\ wNullIdx[0] # wNullIdx[1]
  /\ wNullIdx[0] # nullIdx
  /\ wNullIdx[1] # nullIdx

\* the test indices of the names that are pooled under the null hypothesis
\* and present in the test dataset
EligibleIdx ==
  {MakeIdxMap(pin.tNames)[n] :
     n \in Range(PooledNames(pin.nullType)) \cap Range(pin.tNames)}

\* C20: once built, the pool holds only valid test indices, each at most
\* once: under "overlap" exactly the test indices of the assignment names
\* that the test dataset holds, under "all" the index of every test node;
\* and the table maps each pooled name to the position of its index.
C20_PoolValid ==
  pcPool \notin {"off", "pool"} =>
    /\ \A k \in 1 .. Len(nullIdx) : nullIdx[k] \in 0 .. Len(pin.tNames) - 1
    /\ \A j, k \in 1 .. Len(nullIdx) : j # k => nullIdx[j] # nullIdx[k]
    /\ Range(nullIdx) = EligibleIdx
    /\ pin.nullType = "all" => Range(nullIdx) = 0 .. Len(pin.tNames) - 1
    /\ DOMAIN nullMap =
         Range(PooledNames(pin.nullType)) \cap Range(pin.tNames)
    /\ \A n \in DOMAIN nullMap :
         nullIdx[nullMap[n] + 1] = MakeIdxMap(pin.tNames)[n]

\* the operation behind each column name of lines 360-363: avg.weight,
\* coherence, cor.cor, cor.degree, cor.contrib, avg.cor, avg.contrib
ColumnOp ==
  [c \in Cols |->
     CASE c = 0 -> "AverageEdgeWeight"
       [] c = 1 -> "ModuleCoherence"
       [] c \in {2, 3, 4} -> "Correlation"
       [] c \in {5, 6} -> "SignAwareMean"]

\* C21: the permutation path recomputes the seven statistics as the observed
\* path does: when the pool of a worker is in its initial order, the index
\* vector a module draws is its index vector in the test dataset, and the
\* seven values stored for the module are those of its row of the observed
\* matrix, in the same row and in the same column order.
C21_NullAsObserved ==
  pcPool # "off" =>
    \A w \in PoolThreads :
      Fresh(w) /\ wNullIdx[w] = nullIdx =>
        /\ tIdx[w].idx = RealIdx(ModAt(tIdx[w].mi))
        /\ tIdx[w].modIdx = ModIdx(tIdx[w].mi)
        /\ \A c \in Cols :
             /\ tIdx[w].stats[c] = obsStat[tIdx[w].modIdx][c]
             /\ tIdx[w].stats[c].f = ColumnOp[c]

\* a shuffle has left the pool of a worker in its initial order, the datasets
\* order the nodes differently, and a module of two members has stored the
\* values of its observed row
C21_Witness ==
  /\ pcPool # "off"
  /\ pin.tNames # pin.aNames
  /\ \E w \in PoolThreads :
       /\ Fresh(w)
       /\ wNullIdx[w] = nullIdx
       /\ Len(tIdx[w].idx) = 2
       /\ tIdx[w].idx[1] > tIdx[w].idx[2]
       /\ tIdx[w].stats = obsStat[tIdx[w].modIdx]

\* every member name of every requested module is in the table of worker w
AllMembersPooled(w) ==
  \A m \in ModRows : PoolMembers(ModAt(m)) \subseteq DOMAIN wNullMap[w]

\* no value occurs twice in the sequence q
NoRepeat(q) == \A j, k \in 1 .. Len(q) : j # k => q[j] # q[k]

\* C23: within one permutation, when every member name of every module is
\* in the pool, the indices one module draws are pairwise distinct and the
\* indices two different modules draw are disjoint; the pool they are drawn
\* from holds no index twice.
C23_DisjointDraws ==
  pcPool # "off" =>
    \A w \in PoolThreads :
      poolPc[w] # "none" /\ AllMembersPooled(w) =>
        /\ NoRepeat(wNullIdx[w])
        /\ \A i \in 1 .. Len(permIdx[w]) : NoRepeat(permIdx[w][i])
        /\ \A i, j \in 1 .. Len(permIdx[w]) :
             i # j => Range(permIdx[w][i]) \cap Range(permIdx[w][j]) = {}

\* every module has drawn from a pool that is not in its initial order, one
\* of them two indices
C23_Witness ==
  /\ pcPool # "off"
  /\ \E w \in PoolThreads :
       /\ poolPc[w] # "none"
       /\ AllMembersPooled(w)
       /\ Len(permIdx[w]) = NMods
       /\ Len(permIdx[w][1]) = 2
       /\ \A i \in 1 .. NMods : permIdx[w][i] # <<>>
       /\ wNullIdx[w] # nullIdx

\* the node at entry k of the index vector idx of a dataset
NodeAt(nodeNames, idx, k) == nodeNames[idx[k] + 1]

\* the vectors a row of statistics was computed from: the cached discovery
\* side (first argument) and the test side (second argument)
DiscSide(row) == [CV |-> row[2].x, WD |-> row[3].x, NC |-> row[4].x]
TestSide(row) == [CV |-> row[2].y, WD |-> row[3].y, NC |-> row[4].y]

\* entry k of v.WD and of v.NC is the value of the node at entry k of idx
\* (its weights to the nodes at the other entries; its contribution), and
\* v.CV lists the pairs of entries of idx in the order of the upper triangle
AlignedTo(nodeNames, idx, v) ==
  /\ Len(v.WD) = Len(idx)
  /\ Len(v.NC) = Len(idx)
  /\ Len(v.CV) = CorrVectorLen(Len(idx))
  /\ \A k \in 1 .. Len(idx) :
       /\ v.WD[k] =
            SumOver([l \in 1 .. Len(idx) |->
                       Weight(NodeAt(nodeNames, idx, k),
                              NodeAt(nodeNames, idx, l))],
                    (1 .. Len(idx)) \ {k})
       /\ v.NC[k] = ContributionOf(NodeAt(nodeNames, idx, k))
  /\ \A j, k \in 1 .. Len(idx) :
       j < k => v.CV[PairRank(j, k)] = CorrOf(NodeAt(nodeNames, idx, j),
                                              NodeAt(nodeNames, idx, k))

\* entry k of idx is the index of the k-th name of order
NamedBy(order, nodeNames, idx) ==
  /\ Len(idx) = Len(order)
  /\ \A k \in 1 .. Len(idx) : NodeAt(nodeNames, idx, k) = order[k]

\* the vectors handed together to Correlation and SignAwareMean have the
\* same length, and columns 5 and 6 take the vectors of columns 2 and 4
PairedVectors(row) ==
  /\ \A c \in 2 .. 6 : Len(row[c].x) = Len(row[c].y)
  /\ row[5].x = row[2].x /\ row[5].y = row[2].y
  /\ row[6].x = row[4].x /\ row[6].y = row[4].y

\* every member of the module is in the discovery and in the test dataset
InBoth(mod) ==
  Range(pin.modNodeMap[mod]) \subseteq Range(pin.dNames) \cap Range(pin.tNames)

\* C24: for a module whose members are all in both datasets, entry k of the
\* cached discovery vectors is the value of the k-th member name, entry k of
\* the test vectors is the value of the test node of the k-th member name
\* (on the permutation path: of the node drawn for it), the correlation
\* vectors of both sides list the member pairs in the same order, and the
\* vectors handed together to Correlation and SignAwareMean have the same
\* length.
C24_VectorsAligned ==
  /\ pcPool \notin {"off", "pool", "observe"} =>
       \A mi \in ModRows :
         InBoth(ModAt(mi)) =>
           LET mod   == ModAt(mi)
               order == pin.modNodeMap[mod]
               row   == obsStat[ModIdx(mi)]
           IN /\ NamedBy(order, pin.dNames, DiscIdx(mod))
              /\ AlignedTo(pin.dNames, DiscIdx(mod), discVec[mod])
              /\ DiscSide(row) = discVec[mod]
              /\ NamedBy(order, pin.tNames, RealIdx(mod))
              /\ AlignedTo(pin.tNames, RealIdx(mod), TestSide(row))
              /\ PairedVectors(row)
  /\ pcPool # "off" =>
       \A w \in PoolThreads :
         Fresh(w) /\ InBoth(ModAt(tIdx[w].mi)) =>
           LET mod == ModAt(tIdx[w].mi)
               row == tIdx[w].stats
           IN /\ tIdx[w].names = pin.modNodeMap[mod]
              /\ Len(tIdx[w].idx) = Len(tIdx[w].names)
              /\ (\A k \in 1 .. Len(tIdx[w].idx) :
                     tIdx[w].idx[k] < Len(pin.tNames))
                   => /\ DiscSide(row) = discVec[mod]
                      /\ AlignedTo(pin.tNames, tIdx[w].idx, TestSide(row))
                      /\ PairedVectors(row)

\* a module of three members has drawn, from a shuffled pool, three indices
\* that are neither its own nor in ascending order, in datasets and a map
\* that list its members in three different orders
C24_Witness ==
  /\ pcPool # "off"
  /\ \E w \in PoolThreads :
       /\ Fresh(w)
       /\ InBoth(ModAt(tIdx[w].mi))
       /\ Len(tIdx[w].idx) = 3
       /\ tIdx[w].idx # RealIdx(ModAt(tIdx[w].mi))
       /\ tIdx[w].idx # SortedIdx(tIdx[w].idx)
       /\ RealIdx(ModAt(tIdx[w].mi)) # SortedIdx(RealIdx(ModAt(tIdx[w].mi)))
       /\ DiscIdx(ModAt(tIdx[w].mi)) # SortedIdx(DiscIdx(ModAt(tIdx[w].mi)))
       /\ DiscIdx(ModAt(tIdx[w].mi)) # RealIdx(ModAt(tIdx[w].mi))

====
